---- MODULE Spec2Model ----
(***************************************************************************)
(* knolhash: the FSRS scheduler (internal/fsrs), the card hash             *)
(* (internal/knol), the review pages of the web server (internal/web), the *)
(* cards/sources tables (internal/storage) and the reconciler              *)
(* (internal/sync).                                                        *)
(*                                                                         *)
(* float64 values are modelled as fixed-point integers in units of 1/Scale *)
(* (stability 2.4 is 24000).  time.Time values are whole hours.            *)
(***************************************************************************)
EXTENDS Integers, Sequences, FiniteSets, TLC

VARIABLES
    cards,      \* table cards:   hash -> row
    sources,    \* table sources: id -> row
    nextId,     \* AUTOINCREMENT counter of sources.id
    files,      \* the cards found in the markdown files under each path
    now,        \* the wall clock, in hours
    req,        \* the handlePostReview invocations in progress
    served,     \* number of review requests accepted so far
    sync,       \* the RunSync invocation
    call,       \* a direct call of a function of package fsrs
    page,       \* the last response to GET /review/next
    knol,       \* a direct call of knol.Hash on two cards
    parser      \* a direct call of parser.Parse on a reader

vars == <<cards, sources, nextId, files, now, req, served, sync, call, page, knol, parser>>

----------------------------------------------------------------------------
(* Bounds of the model *)

NumHashes == 2          \* distinct card hashes
NumRequests == 2        \* concurrent review requests
MaxReviews == 2         \* review requests per behaviour of Spec
MaxStudyReviews == 6    \* review requests per behaviour of SpecStudy
MaxStreakReviews == 10  \* review requests per behaviour of SpecStreak
MaxLapseDepth == 4      \* reviews before the run of Again of SpecLapse
MaxStabilityDays == 80000 \* cards above this stability are not reviewed again
MaxNow == 1             \* clock ticks per behaviour
MaxSourceId == 2        \* rows ever inserted into sources
MaxInputHalfDays == 40  \* largest stability passed to a direct call, in half days
MaxDeckReviews == 2      \* review requests per behaviour of SpecDeck
MaxDeckNow == 4          \* hours the clock of SpecDeck runs
MaxInputFortieths == 640 \* largest stability passed to NextDueDate, in 1/40 day
MaxLines == 5            \* lines of a file passed to Parse

Hashes == 1..NumHashes
Requests == 1..NumRequests

\* The paths a source is added with: a local directory and a git URL
LocalPaths == {"notes"}
GitPaths == {"https://example.org/deck.git"}
Paths == LocalPaths \cup GitPaths

\* The grades a review request carries: the four ratings, 0 and 5
GradeInputs == 0..5

----------------------------------------------------------------------------
(* Fixed-point arithmetic standing for float64 and package math *)

Scale == 10000

Max(a, b) == IF a >= b THEN a ELSE b
Min(a, b) == IF a <= b THEN a ELSE b

\* a * b of two fixed-point numbers (also a * n for a whole number n * Scale),
\* rounded down; split so that no intermediate product leaves 32 bits
Mul(a, b) == (a \div Scale) * b + ((a % Scale) * b) \div Scale

RECURSIVE ExpTail(_, _, _)
ExpTail(x, term, n) ==
    IF term = 0 THEN 0 ELSE term + ExpTail(x, Mul(term, x) \div n, n + 1)

\* math.Exp: the Taylor series of e^x, e^-x as 1 / e^x
Exp(x) == IF x >= 0 THEN ExpTail(x, Scale, 1)
                    ELSE (Scale * Scale) \div ExpTail(-x, Scale, 1)

RECURSIVE AtanhTail(_, _, _)
AtanhTail(zz, pw, k) ==
    IF pw = 0 THEN 0 ELSE pw \div k + AtanhTail(zz, Mul(pw, zz), k + 2)

Atanh(z) == AtanhTail(Mul(z, z), z, 1)

Ln2 == 2 * Atanh(Scale \div 3)

RECURSIVE Log(_)
\* math.Log for x > 0: ln x = k ln 2 + 2 atanh((m - 1) / (m + 1)), x = m 2^k
Log(x) == IF x >= 2 * Scale THEN Ln2 + Log(x \div 2)
          ELSE IF x < Scale THEN Log(2 * x) - Ln2
          ELSE 2 * Atanh(((x - Scale) * Scale) \div (x + Scale))

\* math.Pow(x, y) for x > 0
Pow(x, y) == Exp(Mul(y, Log(x)))

----------------------------------------------------------------------------
(* internal/fsrs *)

Again == 1
Hard == 2
Good == 3
Easy == 4

Ratings == {Again, Hard, Good, Easy}

\* DefaultParams().W; W[i] of the source is W[i + 1] here
W == <<4000, 6000, 24000, 58000, 49300, 9400, 8600, 100, 14900, 1400, 9400>>

DesiredRetention == 9000

\* The literals of NextState and calculateNewStability
StabilityFloor == 1000
EasyBonus == 13000
MinDifficulty == 10000
MaxDifficulty == 100000

ClampNoCeiling(d) == Max(MinDifficulty, d)

\* math.Max(1, math.Min(10, d))
Clamp(d) == Max(MinDifficulty, Min(MaxDifficulty, d))

calculateNewStabilityTenMinusD(s, d, r) ==
    LET hardPenalty == IF r = Hard THEN W[11]
                       ELSE IF r = Easy THEN EasyBonus ELSE Scale
        growthFactor == Mul(Mul(Exp(W[9]), 10 * Scale - d), Pow(s, -W[10]))
        retentionFactor == Exp(Mul(W[11], Scale - DesiredRetention)) - Scale
    IN  Mul(s, Scale + Mul(Mul(growthFactor, retentionFactor), hardPenalty))

calculateNewStabilityNoPenalty(s, d, r) ==
    LET growthFactor == Mul(Mul(Exp(W[9]), 11 * Scale - d), Pow(s, -W[10]))
        retentionFactor == Exp(Mul(W[11], Scale - DesiredRetention)) - Scale
    IN  Mul(s, Scale + Mul(growthFactor, retentionFactor))

\* s * (1 + growthFactor * retentionFactor * hardPenalty)
calculateNewStability(s, d, r) ==
    LET hardPenalty == IF r = Hard THEN W[11]
                       ELSE IF r = Easy THEN EasyBonus ELSE Scale
        growthFactor == Mul(Mul(Exp(W[9]), 11 * Scale - d), Pow(s, -W[10]))
        retentionFactor == Exp(Mul(W[11], Scale - DesiredRetention)) - Scale
    IN  Mul(s, Scale + Mul(Mul(growthFactor, retentionFactor), hardPenalty))

\* p.W[rating-1] with rating-1 outside the slice: a run-time panic
NextStatePanics(currentState, rating) ==
    currentState.Stability = 0 /\ (rating - 1 < 0 \/ rating - 1 >= Len(W))

firstReviewFlat(currentState, rating, clock) ==
    [Stability  |-> W[rating],
     Difficulty |-> Clamp(W[5]),
     LastReview |-> clock]

firstReviewFromPrior(currentState, rating, clock) ==
    [Stability  |-> W[rating],
     Difficulty |-> Clamp(currentState.Difficulty + W[5] - W[7] * (rating - 3)),
     LastReview |-> clock]

\* The branch currentState.Stability == 0
firstReview(currentState, rating, clock) ==
    [Stability  |-> W[rating],
     Difficulty |-> Clamp(W[5] - W[7] * (rating - 3)),
     LastReview |-> clock]

subsequentReviewHardNeutral(currentState, rating, clock) ==
    LET adjustment == rating - 2
        newDifficulty == Clamp(currentState.Difficulty - W[7] * adjustment)
        newStability ==
            IF rating = Again
            THEN Max(StabilityFloor, Mul(currentState.Stability, W[8]))
            ELSE calculateNewStability(currentState.Stability,
                                       newDifficulty, rating)
    IN  [Stability  |-> newStability,
         Difficulty |-> newDifficulty,
         LastReview |-> clock]

subsequentReviewResets(currentState, rating, clock) ==
    LET adjustment == rating - 3
        newDifficulty == Clamp(currentState.Difficulty - W[7] * adjustment)
    IN  [Stability  |-> IF rating = Again THEN Scale
                        ELSE calculateNewStability(currentState.Stability,
                                                   newDifficulty, rating),
         Difficulty |-> newDifficulty,
         LastReview |-> clock]

subsequentReviewNoFloor(currentState, rating, clock) ==
    LET adjustment == rating - 3
        newDifficulty == Clamp(currentState.Difficulty - W[7] * adjustment)
    IN  [Stability  |-> IF rating = Again
                        THEN Mul(currentState.Stability, W[8])
                        ELSE calculateNewStability(currentState.Stability,
                                                   newDifficulty, rating),
         Difficulty |-> newDifficulty,
         LastReview |-> clock]

\* The branch of a card reviewed before
subsequentReview(currentState, rating, clock) ==
    LET adjustment == rating - 3
        newDifficulty == Clamp(currentState.Difficulty - W[7] * adjustment)
        newStability ==
            IF rating = Again
            THEN Max(StabilityFloor, Mul(currentState.Stability, W[8]))
            ELSE calculateNewStability(currentState.Stability,
                                       newDifficulty, rating)
    IN  [Stability  |-> newStability,
         Difficulty |-> newDifficulty,
         LastReview |-> clock]

NextState(currentState, rating, clock) ==
    IF currentState.Stability = 0
    THEN firstReview(currentState, rating, clock)
    ELSE subsequentReview(currentState, rating, clock)

\* The largest whole number of hours an int64 of nanoseconds holds,
\* floor((2^63 - 1) / 3.6e12), and floor(2^64 / 3.6e12)
MaxDurationHours == 2562047
Int64SpanHours == 5124095

\* time.Duration(hours) * time.Hour: the int64 product wraps around.  In
\* whole hours, rounded down; exact for 0 <= hours < 7686144.
DurationHours(hours) ==
    IF hours > MaxDurationHours THEN hours - Int64SpanHours - 1 ELSE hours

NextDueDate(newStability, clock) ==
    LET hours == Mul(newStability, 24)
    IN  clock + DurationHours(hours)

----------------------------------------------------------------------------
(* internal/knol: a string is a sequence of one-character strings *)

LF == "\n"
CR == "\r"

\* The characters strings.TrimSpace removes
WhiteSpace == {" ", "\t", LF, CR}

\* strings.ToLower over the letters of the inputs
ToLower(str) ==
    [i \in DOMAIN str |-> IF str[i] = "A" THEN "a"
                          ELSE IF str[i] = "B" THEN "b" ELSE str[i]]

RECURSIVE TrimSpace(_)
\* strings.TrimSpace: the leading and trailing white space removed
TrimSpace(str) ==
    IF str = <<>> THEN str
    ELSE IF Head(str) \in WhiteSpace THEN TrimSpace(Tail(str))
    ELSE IF str[Len(str)] \in WhiteSpace
         THEN TrimSpace(SubSeq(str, 1, Len(str) - 1))
    ELSE str

RECURSIVE ReplaceCRLF(_)
\* strings.ReplaceAll(p, "\r\n", "\n")
ReplaceCRLF(str) ==
    IF Len(str) < 2 THEN str
    ELSE IF str[1] = CR /\ str[2] = LF
         THEN <<LF>> \o ReplaceCRLF(SubSeq(str, 3, Len(str)))
    ELSE <<str[1]>> \o ReplaceCRLF(Tail(str))

normalizePart(part) == ReplaceCRLF(TrimSpace(ToLower(part)))

\* strings.Join([]string{q, a, c}, "\n")
Normalize(card) ==
    normalizePart(card.Question) \o <<LF>> \o normalizePart(card.Answer)
        \o <<LF>> \o normalizePart(card.Context)

\* sha256.Sum256 printed with %x: one digest for each input, no collisions
Sum256(bytes) == [sha256 |-> bytes]

Hash(card) == Sum256(Normalize(card))

----------------------------------------------------------------------------
(* internal/parser: the cards of a markdown file.  A line is a sequence of *)
(* characters, a reader the lines bufio.Scanner yields and whether the     *)
(* scanner ends with an error.                                             *)

\* The zero value of domain.Card (Question, Answer, Context)
EmptyCard == [Question |-> <<>>, Answer |-> <<>>, Context |-> <<>>]

questionPrefix == <<"Q", ":">>
answerPrefix == <<"A", ":">>
contextPrefix == <<"C", ":">>

\* strings.HasPrefix
HasPrefix(str, prefix) ==
    /\ Len(str) >= Len(prefix)
    /\ SubSeq(str, 1, Len(prefix)) = prefix

\* strings.TrimPrefix
TrimPrefix(str, prefix) ==
    IF HasPrefix(str, prefix) THEN SubSeq(str, Len(prefix) + 1, Len(str))
    ELSE str

RECURSIVE Join(_, _)
\* strings.Join
Join(elems, sep) ==
    IF elems = <<>> THEN <<>>
    ELSE IF Len(elems) = 1 THEN elems[1]
    ELSE elems[1] \o sep \o Join(Tail(elems), sep)

\* The locals of Parse before the first line
NewParse == [cards |-> <<>>, currentCard |-> EmptyCard,
             currentBlock |-> <<>>, currentState |-> "seeking"]

\* A save that keeps only the line of the prefix
saveBlockFirstLine(p) ==
    LET content == IF p.currentBlock = <<>> THEN <<>>
                   ELSE TrimSpace(p.currentBlock[1])
    IN  CASE p.currentState = "readingQuestion" ->
                [p EXCEPT !.currentCard.Question = content]
          [] p.currentState = "readingAnswer" ->
                [p EXCEPT !.currentCard.Answer = content]
          [] p.currentState = "readingContext" ->
                [p EXCEPT !.currentCard.Context = content]
          [] OTHER -> p

\* switch currentState: the block read so far becomes the field it belongs to
saveBlock(p) ==
    LET content == TrimSpace(Join(p.currentBlock, <<LF>>))
    IN  CASE p.currentState = "readingQuestion" ->
                [p EXCEPT !.currentCard.Question = content]
          [] p.currentState = "readingAnswer" ->
                [p EXCEPT !.currentCard.Answer = content]
          [] p.currentState = "readingContext" ->
                [p EXCEPT !.currentCard.Context = content]
          [] OTHER -> p

\* A finishCard that appends the card whatever its question
finishCardAlways(p) ==
    [p EXCEPT !.cards = Append(@, p.currentCard), !.currentCard = EmptyCard]

\* finishCard: the card in progress is kept if it has a question
finishCard(p) ==
    [p EXCEPT !.cards = IF p.currentCard.Question # <<>>
                        THEN Append(@, p.currentCard) ELSE @,
              !.currentCard = EmptyCard]

\* The body of the scanner loop for one line
ParseLine(p, line) ==
    LET isQ == HasPrefix(line, questionPrefix)
        isA == HasPrefix(line, answerPrefix)
        isC == HasPrefix(line, contextPrefix)
        saved == [saveBlock(p) EXCEPT !.currentBlock = <<>>]
    IN  IF isQ
        THEN [finishCard(saved) EXCEPT
                 !.currentState = "readingQuestion",
                 !.currentBlock =
                     <<TrimSpace(TrimPrefix(line, questionPrefix))>>]
        ELSE IF isA
        THEN [saved EXCEPT
                 !.currentState = "readingAnswer",
                 !.currentBlock =
                     <<TrimSpace(TrimPrefix(line, answerPrefix))>>]
        ELSE IF isC
        THEN [saved EXCEPT
                 !.currentState = "readingContext",
                 !.currentBlock =
                     <<TrimSpace(TrimPrefix(line, contextPrefix))>>]
        ELSE IF p.currentState # "seeking"
        THEN [p EXCEPT !.currentBlock = Append(@, line)]
        ELSE p

RECURSIVE ParseLines(_, _)
\* for scanner.Scan()
ParseLines(p, lines) ==
    IF lines = <<>> THEN p
    ELSE ParseLines(ParseLine(p, Head(lines)), Tail(lines))

\* Parse: the cards of the reader, or the error of the scanner and no cards
Parse(r) ==
    LET p == finishCard(saveBlock(ParseLines(NewParse, r.lines)))
    IN  IF r.err THEN [cards |-> <<>>, err |-> TRUE]
        ELSE [cards |-> p.cards, err |-> FALSE]

----------------------------------------------------------------------------
(* internal/storage *)

NullTime == [Time |-> 0, Valid |-> FALSE]

\* InsertCard: the row of a card that was never reviewed
NewCardRow(sourceID, clock) ==
    [stability |-> 0, difficulty |-> 0, due_date |-> clock,
     last_review |-> NullTime, state |-> 0, source_id |-> sourceID]

\* The zero value of storage.Card
ZeroCard == NewCardRow(0, 0)

\* UPDATE cards SET stability, difficulty, due_date, last_review, state
\* WHERE hash = cs.Hash: no row, no change
UpdateCardPartly(table, hash, cs) ==
    IF hash \in DOMAIN table
    THEN [table EXCEPT ![hash] =
             [stability |-> cs.stability, difficulty |-> cs.difficulty,
              due_date |-> @.due_date, last_review |-> @.last_review,
              state |-> cs.state, source_id |-> @.source_id]]
    ELSE table

UpdateCard(table, hash, cs) ==
    IF hash \in DOMAIN table
    THEN [table EXCEPT ![hash] =
             [stability |-> cs.stability, difficulty |-> cs.difficulty,
              due_date |-> cs.due_date, last_review |-> cs.last_review,
              state |-> cs.state, source_id |-> @.source_id]]
    ELSE table

\* INSERT INTO cards: fails on a hash that is stored already
InsertCard(table, hash, sourceID, clock) ==
    table @@ (hash :> NewCardRow(sourceID, clock))

\* DELETE FROM cards WHERE hash = ?
DeleteCardByHash(table, hash) ==
    [h \in DOMAIN table \ {hash} |-> table[h]]

GetCardsOfAnySource(table, sourceID) == DOMAIN table

\* SELECT ... FROM cards WHERE source_id = ?
GetCardsBySourceID(table, sourceID) ==
    {h \in DOMAIN table : table[h].source_id = sourceID}

\* The rows a query returns, in an order: each of the hashes once
RowOrders(table, hashes) ==
    {rows \in [1..Cardinality(hashes) -> hashes] :
        \A i, j \in 1..Cardinality(hashes) : i # j => rows[i] # rows[j]}

GetDueCardsUnordered(table, clock) ==
    LET due == {h \in DOMAIN table : table[h].due_date <= clock}
    IN  {[i \in DOMAIN rows |->
             [Hash |-> rows[i], DueDate |-> table[rows[i]].due_date]] :
                rows \in RowOrders(table, due)}

\* SELECT ... FROM cards WHERE due_date <= now ORDER BY due_date ASC: the
\* results the query may return (rows of equal due_date come in any order)
GetDueCards(table, clock) ==
    LET due == {h \in DOMAIN table : table[h].due_date <= clock}
        sorted == {rows \in RowOrders(table, due) :
                     \A i, j \in DOMAIN rows :
                        i < j => table[rows[i]].due_date
                                    <= table[rows[j]].due_date}
    IN  {[i \in DOMAIN rows |->
             [Hash |-> rows[i], DueDate |-> table[rows[i]].due_date]] :
                rows \in sorted}

\* handlePostSource, addNewSource: the type of a source follows from its path
SourceType(path) == IF path \in GitPaths THEN "git" ELSE "local"

\* InsertSource: the row of a new source
NewSourceRow(path, clock) ==
    [path |-> path, type |-> SourceType(path),
     last_scanned |-> [Time |-> clock, Valid |-> TRUE]]

\* sources.path is UNIQUE
PathStored(path) == \E id \in DOMAIN sources : sources[id].path = path

----------------------------------------------------------------------------
(* internal/web: handlePostReview *)

\* strconv.Atoi of the posted grade: a number, or an error
AtoiResults(grades) ==
    {[n |-> g, err |-> FALSE] : g \in grades} \cup {[n |-> 0, err |-> TRUE]}

ZeroState == [Stability |-> 0, Difficulty |-> 0, LastReview |-> 0]

\* The locals of one invocation: hash, grade, currentFSRSState, card
IdleRequest == [pc |-> "idle", hash |-> 0, grade |-> 0,
                currentFSRSState |-> ZeroState, card |-> ZeroCard,
                status |-> "none"]

\* The card as handlePostReview is about to store it
CurrentFSRSState(card) ==
    [Stability |-> card.stability, Difficulty |-> card.difficulty,
     LastReview |-> card.last_review.Time]

ReviewedCard(card, grade, clock) ==
    LET newFSRSState == NextState(CurrentFSRSState(card), grade, clock)
        newDueDate == NextDueDate(newFSRSState.Stability, clock)
    IN  [card EXCEPT !.stability = newFSRSState.Stability,
                     !.difficulty = newFSRSState.Difficulty,
                     !.due_date = newDueDate,
                     !.last_review = [Time |-> newFSRSState.LastReview,
                                      Valid |-> TRUE],
                     !.state = 2]

\* A request arrives; its grade is parsed
PostReviewParse(r, hashes, grades, limit) ==
    /\ req[r].pc \in {"idle", "done"}
    /\ served < limit
    /\ \E hash \in hashes, grade \in AtoiResults(grades) :
          req' = [req EXCEPT ![r] =
                    IF grade.err
                    THEN [IdleRequest EXCEPT !.pc = "done", !.hash = hash,
                                             !.status = "400"]
                    ELSE [IdleRequest EXCEPT !.pc = "find", !.hash = hash,
                                             !.grade = grade.n]]
    /\ served' = served + 1
    /\ UNCHANGED <<cards, sources, nextId, files, now, sync, call, page, knol, parser>>

\* s.db.FindCardByHash(hash)
PostReviewFind(r) ==
    /\ req[r].pc = "find"
    /\ \E dbErr \in BOOLEAN :
          req' = [req EXCEPT ![r] =
                    IF dbErr \/ req[r].hash \notin DOMAIN cards
                    THEN [@ EXCEPT !.pc = "done", !.status = "404"]
                    ELSE [@ EXCEPT !.pc = "update",
                                   !.card = cards[req[r].hash]]]
    /\ UNCHANGED <<cards, sources, nextId, files, now, served, sync, call, page, knol, parser>>

\* NextState, NextDueDate and s.db.UpdateCard(card)
PostReviewUpdate(r) ==
    /\ req[r].pc = "update"
    /\ req[r].card.stability <= MaxStabilityDays * Scale
    /\ LET current == CurrentFSRSState(req[r].card)
       IN  IF NextStatePanics(current, req[r].grade)
           THEN /\ req' = [req EXCEPT ![r] =
                             [@ EXCEPT !.pc = "done",
                                       !.currentFSRSState = current,
                                       !.status = "panic"]]
                /\ cards' = cards
           ELSE LET card == ReviewedCard(req[r].card, req[r].grade, now)
                IN  \E dbErr \in BOOLEAN :
                      /\ req' = [req EXCEPT ![r] =
                                   [@ EXCEPT !.pc = "done",
                                             !.currentFSRSState = current,
                                             !.card = card,
                                             !.status = IF dbErr THEN "500"
                                                        ELSE "200"]]
                      /\ cards' = IF dbErr THEN cards
                                  ELSE UpdateCard(cards, req[r].hash, card)
    /\ UNCHANGED <<sources, nextId, files, now, served, sync, call, page, knol, parser>>

\* The clock advances
Tick ==
    /\ now < MaxNow
    /\ now' = now + 1
    /\ UNCHANGED <<cards, sources, nextId, files, req, served, sync, call, page, knol, parser>>

\* The clock advances up to a limit
Wait(limit) ==
    /\ now < limit
    /\ now' = now + 1
    /\ UNCHANGED <<cards, sources, nextId, files, req, served, sync, call, page, knol, parser>>

----------------------------------------------------------------------------
(* internal/web: handleGetNextReview *)

\* The browser sends GET /review/next
GetNextReview ==
    /\ page.view # "pending"
    /\ page' = [view |-> "pending", dueCards |-> <<>>, nextCard |-> 0]
    /\ UNCHANGED <<cards, sources, nextId, files, now, req, served, sync, call, knol, parser>>

\* GetDueCards; the deck view when nothing is due, else the front of
\* dueCards[0]
handleGetNextReview ==
    /\ page.view = "pending"
    /\ \E dbErr \in BOOLEAN :
          IF dbErr
          THEN page' = [view |-> "500", dueCards |-> <<>>, nextCard |-> 0]
          ELSE \E dueCards \in GetDueCards(cards, now) :
                  page' = IF Len(dueCards) = 0
                          THEN [view |-> "deck", dueCards |-> dueCards,
                                nextCard |-> 0]
                          ELSE [view |-> "card_front", dueCards |-> dueCards,
                                nextCard |-> dueCards[1].Hash]
    /\ UNCHANGED <<cards, sources, nextId, files, now, req, served, sync, call, knol, parser>>

----------------------------------------------------------------------------
(* internal/web: the sources page;  the markdown files *)

\* handlePostSource: InsertSource(path, sourceType)
AddSource ==
    /\ sync.pc # "exited"
    /\ nextId <= MaxSourceId
    /\ \E path \in Paths :
          /\ ~PathStored(path)
          /\ sources' = sources @@ (nextId :> NewSourceRow(path, now))
    /\ nextId' = nextId + 1
    /\ UNCHANGED <<cards, files, now, req, served, sync, call, page, knol, parser>>

DeleteSourceCardsOnly ==
    /\ sync.pc # "exited"
    /\ \E id \in DOMAIN sources :
          /\ cards' = [h \in DOMAIN cards \ GetCardsBySourceID(cards, id)
                          |-> cards[h]]
          /\ sources' = sources
    /\ UNCHANGED <<nextId, files, now, req, served, sync, call, page, knol, parser>>

\* handleDeleteSource: DeleteSource(id), one transaction
DeleteSource ==
    /\ sync.pc # "exited"
    /\ \E id \in DOMAIN sources :
          /\ cards' = [h \in DOMAIN cards \ GetCardsBySourceID(cards, id)
                          |-> cards[h]]
          /\ sources' = [i \in DOMAIN sources \ {id} |-> sources[i]]
    /\ UNCHANGED <<nextId, files, now, req, served, sync, call, page, knol, parser>>

\* The user edits the markdown files under a path (for a git source: the
\* remote repository changes)
FileEdit ==
    /\ \E path \in Paths, content \in SUBSET Hashes :
          /\ content # files[path]
          /\ files' = [files EXCEPT ![path] = content]
    /\ UNCHANGED <<cards, sources, nextId, now, req, served, sync, call, page, knol, parser>>

----------------------------------------------------------------------------
(* internal/sync *)

NoSource == [id |-> 0, path |-> "", type |-> ""]

\* The locals of RunSync and reconcileLocalSource
\* and what the run has logged: the sources skipped with "Error syncing git
\* repo", the sources reconcileLocalSource was called for
IdleSync == [pc |-> "idle", queue |-> {}, source |-> NoSource,
             fileCards |-> {}, foundCardHashes |-> {}, dbCards |-> {},
             errors |-> FALSE, skipped |-> {}, reconciled |-> {}]

\* RunSync up to the loop: GetAllSources, MkdirAll
RunSyncStart ==
    /\ sync.pc = "idle"
    /\ \E fatal \in BOOLEAN :
          sync' = IF fatal THEN [IdleSync EXCEPT !.pc = "exited"]
                  ELSE IF DOMAIN sources = {} THEN [IdleSync EXCEPT !.pc = "done"]
                  ELSE [IdleSync EXCEPT
                          !.pc = "loop",
                          !.queue = {[id |-> id, path |-> sources[id].path,
                                      type |-> sources[id].type] :
                                         id \in DOMAIN sources}]
    /\ UNCHANGED <<cards, sources, nextId, files, now, req, served, call, page, knol, parser>>

RunSyncSourceReturns ==
    /\ sync.pc = "loop"
    /\ \E source \in sync.queue, gitErr, walkErr, parseErr \in BOOLEAN :
          sync' = IF source.type = "git" /\ gitErr
                  THEN [sync EXCEPT !.queue = {}, !.errors = TRUE,
                                    !.skipped = @ \cup {source.id}]
                  ELSE IF walkErr
                  THEN [sync EXCEPT !.queue = @ \ {source}, !.errors = TRUE,
                                    !.reconciled = @ \cup {source.id}]
                  ELSE [sync EXCEPT
                          !.pc = "walk",
                          !.queue = @ \ {source},
                          !.source = source,
                          !.reconciled = @ \cup {source.id},
                          !.fileCards = IF parseErr THEN {}
                                        ELSE files[source.path],
                          !.foundCardHashes = {},
                          !.errors = @ \/ parseErr]
    /\ UNCHANGED <<cards, sources, nextId, files, now, req, served, call, page, knol, parser>>

\* One iteration of the loop over the sources, up to the parsed file:
\* gitsource.Sync for a git source, then WalkDir and ParseFile
RunSyncSource ==
    /\ sync.pc = "loop"
    /\ \E source \in sync.queue, gitErr, walkErr, parseErr \in BOOLEAN :
          sync' = IF source.type = "git" /\ gitErr
                  THEN [sync EXCEPT !.queue = @ \ {source}, !.errors = TRUE,
                                    !.skipped = @ \cup {source.id}]
                  ELSE IF walkErr
                  THEN [sync EXCEPT !.queue = @ \ {source}, !.errors = TRUE,
                                    !.reconciled = @ \cup {source.id}]
                  ELSE [sync EXCEPT
                          !.pc = "walk",
                          !.queue = @ \ {source},
                          !.source = source,
                          !.reconciled = @ \cup {source.id},
                          !.fileCards = IF parseErr THEN {}
                                        ELSE files[source.path],
                          !.foundCardHashes = {},
                          !.errors = @ \/ parseErr]
    /\ UNCHANGED <<cards, sources, nextId, files, now, req, served, call, page, knol, parser>>

\* One card of the parsed file: FindCardByHash, InsertCard when not stored
RunSyncCard ==
    /\ sync.pc = "walk"
    /\ \E hash \in sync.fileCards, findErr, insertErr \in BOOLEAN :
          LET insert == ~findErr /\ hash \notin DOMAIN cards
          IN  /\ sync' = [sync EXCEPT
                            !.fileCards = @ \ {hash},
                            !.foundCardHashes = @ \cup {hash},
                            !.errors = @ \/ findErr \/ (insert /\ insertErr)]
              /\ cards' = IF insert /\ ~insertErr
                          THEN InsertCard(cards, hash, sync.source.id, now)
                          ELSE cards
    /\ UNCHANGED <<sources, nextId, files, now, req, served, call, page, knol, parser>>

\* After the walk: GetCardsBySourceID, the orphans among its rows
RunSyncList ==
    /\ sync.pc = "walk"
    /\ sync.fileCards = {}
    /\ \E listErr \in BOOLEAN :
          sync' = IF listErr
                  THEN [sync EXCEPT !.pc = "loop", !.errors = TRUE]
                  ELSE [sync EXCEPT
                          !.pc = "orphans",
                          !.dbCards = GetCardsBySourceID(cards, sync.source.id)
                                          \ sync.foundCardHashes]
    /\ UNCHANGED <<cards, sources, nextId, files, now, req, served, call, page, knol, parser>>

\* One orphaned card: DeleteCardByHash
RunSyncOrphan ==
    /\ sync.pc = "orphans"
    /\ \E hash \in sync.dbCards, deleteErr \in BOOLEAN :
          /\ sync' = [sync EXCEPT !.dbCards = @ \ {hash},
                                  !.errors = @ \/ deleteErr]
          /\ cards' = IF deleteErr THEN cards
                      ELSE DeleteCardByHash(cards, hash)
    /\ UNCHANGED <<sources, nextId, files, now, req, served, call, page, knol, parser>>

\* The end of reconcileLocalSource: UpdateSourceLastScanned
RunSyncScanned ==
    /\ sync.pc = "orphans"
    /\ sync.dbCards = {}
    /\ \E updateErr \in BOOLEAN :
          /\ sync' = [sync EXCEPT !.pc = "loop", !.errors = @ \/ updateErr]
          /\ sources' = IF updateErr \/ sync.source.id \notin DOMAIN sources
                        THEN sources
                        ELSE [sources EXCEPT ![sync.source.id].last_scanned =
                                 [Time |-> now, Valid |-> TRUE]]
    /\ UNCHANGED <<cards, nextId, files, now, req, served, call, page, knol, parser>>

\* The loop is over: "Sync process complete."
RunSyncDone ==
    /\ sync.pc = "loop"
    /\ sync.queue = {}
    /\ sync' = [sync EXCEPT !.pc = "done"]
    /\ UNCHANGED <<cards, sources, nextId, files, now, req, served, call, page, knol, parser>>

\* RunSync has returned to its caller
RunSyncReturn ==
    /\ sync.pc = "done"
    /\ sync' = IdleSync
    /\ UNCHANGED <<cards, sources, nextId, files, now, req, served, call, page, knol, parser>>

RunSync ==
    \/ RunSyncStart
    \/ RunSyncSource
    \/ RunSyncCard
    \/ RunSyncList
    \/ RunSyncOrphan
    \/ RunSyncScanned
    \/ RunSyncDone
    \/ RunSyncReturn

----------------------------------------------------------------------------
(* Specifications *)


NoCall == [pc |-> "none", currentState |-> ZeroState, rating |-> 0,
           clock |-> 0, result |-> ZeroState, newStability |-> 0, due |-> 0]

\* No response of GET /review/next yet
NoPage == [view |-> "none", dueCards |-> <<>>, nextCard |-> 0]

NoKnol == [pc |-> "none", card1 |-> EmptyCard, card2 |-> EmptyCard,
           hash1 |-> Sum256(<<>>), hash2 |-> Sum256(<<>>)]

\* No call of Parse yet
NoParser == [pc |-> "none", r |-> [lines |-> <<>>, err |-> FALSE],
             cards |-> <<>>, err |-> FALSE]

\* The hash of a request for a card that is not stored
UnknownHash == 0

\* A database holding the cards of one source, none reviewed yet
InitStudy ==
    /\ cards = [h \in Hashes |-> NewCardRow(1, 0)]
    /\ sources = (1 :> NewSourceRow("notes", 0))
    /\ nextId = 2
    /\ files = [p \in Paths |-> IF p = "notes" THEN Hashes ELSE {}]
    /\ now = 0
    /\ req = [r \in Requests |-> IdleRequest]
    /\ served = 0
    /\ sync = IdleSync
    /\ page = NoPage
    /\ knol = NoKnol
    /\ parser = NoParser
    /\ call = NoCall

\* The review server: concurrent requests carrying any grade
Init == InitStudy

Next ==
    \/ \E r \in Requests :
          PostReviewParse(r, Hashes \cup {UnknownHash}, GradeInputs, MaxReviews)
    \/ \E r \in Requests : PostReviewFind(r)
    \/ \E r \in Requests : PostReviewUpdate(r)

Spec == Init /\ [][Next]_vars

\* One learner studying one card: one request at a time, the four ratings
NextStudy ==
    \/ PostReviewParse(1, {1}, Ratings, MaxStudyReviews)
    \/ PostReviewFind(1)
    \/ PostReviewUpdate(1)
    \/ Tick

SpecStudy == InitStudy /\ [][NextStudy]_vars

\* A learner who recalls the card at every review
NextStreak ==
    \/ PostReviewParse(1, {1}, {Good, Easy}, MaxStreakReviews)
    \/ PostReviewFind(1)
    \/ PostReviewUpdate(1)
    \/ Tick

SpecStreak == InitStudy /\ [][NextStreak]_vars

\* knol.Hash as a function: the fields of the two cards, one line or two
FieldInputs ==
    {<<>>, <<"a">>, <<"b">>, <<"A", " ">>, <<"a", CR, LF, "b">>}

\* The cards the parser yields have a question
CardInputs ==
    {[Question |-> q, Answer |-> a, Context |-> c] :
        q \in FieldInputs \ {<<>>}, a \in FieldInputs, c \in FieldInputs}

InitHash ==
    /\ cards = <<>>
    /\ sources = <<>>
    /\ nextId = 1
    /\ files = [p \in Paths |-> {}]
    /\ now = 0
    /\ req = [r \in Requests |-> IdleRequest]
    /\ served = 0
    /\ sync = IdleSync
    /\ page = NoPage
    /\ call = NoCall
    /\ parser = NoParser
    /\ \E card1, card2 \in CardInputs :
          knol = [NoKnol EXCEPT !.pc = "call", !.card1 = card1,
                                !.card2 = card2]

CallHash ==
    /\ knol.pc = "call"
    /\ knol' = [knol EXCEPT !.pc = "returned", !.hash1 = Hash(knol.card1),
                            !.hash2 = Hash(knol.card2)]
    /\ UNCHANGED <<cards, sources, nextId, files, now, req, served, sync, call, page, parser>>

SpecHash == InitHash /\ [][CallHash]_vars

\* parser.Parse as a function: the lines of a file with questions, answers,
\* contexts, plain lines, an empty line and a separator line
LineInputs ==
    {<<"Q", ":", " ", "a">>, <<"Q", ":">>, <<"A", ":", " ", "b">>,
     <<"C", ":", "c">>, <<"x">>, <<>>, <<"-", "-", "-">>}

\* The readers: at most MaxLines lines, a scanner that may fail
ReaderInputs ==
    {[lines |-> l, err |-> e] :
        l \in UNION {[1..n -> LineInputs] : n \in 0..MaxLines},
        e \in BOOLEAN}

InitParse ==
    /\ cards = <<>>
    /\ sources = <<>>
    /\ nextId = 1
    /\ files = [p \in Paths |-> {}]
    /\ now = 0
    /\ req = [r \in Requests |-> IdleRequest]
    /\ served = 0
    /\ sync = IdleSync
    /\ page = NoPage
    /\ call = NoCall
    /\ knol = NoKnol
    /\ \E r \in ReaderInputs : parser = [NoParser EXCEPT !.pc = "call", !.r = r]

CallParse ==
    /\ parser.pc = "call"
    /\ parser' = [parser EXCEPT !.pc = "returned",
                                !.cards = Parse(parser.r).cards,
                                !.err = Parse(parser.r).err]
    /\ UNCHANGED <<cards, sources, nextId, files, now, req, served, sync, call, page, knol>>

SpecParse == InitParse /\ [][CallParse]_vars

\* A learner who opens the review page while cards fall due: reviews rated
\* Again or Hard bring a card back within hours
NextDeck ==
    \/ PostReviewParse(1, Hashes, {Again, Hard}, MaxDeckReviews)
    \/ PostReviewFind(1)
    \/ PostReviewUpdate(1)
    \/ GetNextReview
    \/ handleGetNextReview
    \/ Wait(MaxDeckNow)

SpecDeck == InitStudy /\ [][NextDeck]_vars

\* The reconciler: the database after storage.Open, sources and files that
\* change between the runs of RunSync
InitSync ==
    /\ cards = <<>>
    /\ sources = <<>>
    /\ nextId = 1
    /\ files = [p \in Paths |-> {}]
    /\ now = 0
    /\ req = [r \in Requests |-> IdleRequest]
    /\ served = 0
    /\ sync = IdleSync
    /\ page = NoPage
    /\ knol = NoKnol
    /\ parser = NoParser
    /\ call = NoCall

NextSync ==
    \/ RunSync
    \/ sync.pc = "idle" /\ AddSource
    \/ sync.pc = "idle" /\ DeleteSource
    \/ sync.pc = "idle" /\ FileEdit
    \/ Tick

SpecSync == InitSync /\ [][NextSync]_vars

\* The reconciler over a database that holds a reviewed card of the source
\* "notes": the sources and the files change between the runs of RunSync
InitReconcile ==
    /\ cards = (1 :> ReviewedCard(NewCardRow(1, 0), Good, 0))
    /\ sources = (1 :> NewSourceRow("notes", 0))
    /\ nextId = 2
    /\ files = [p \in Paths |-> IF p = "notes" THEN {1} ELSE {}]
    /\ now = 0
    /\ req = [r \in Requests |-> IdleRequest]
    /\ served = 0
    /\ sync = IdleSync
    /\ page = NoPage
    /\ knol = NoKnol
    /\ parser = NoParser
    /\ call = NoCall

NextReconcile ==
    \/ RunSync
    \/ sync.pc = "idle" /\ AddSource
    \/ sync.pc = "idle" /\ DeleteSource
    \/ sync.pc = "idle" /\ FileEdit

SpecReconcile == InitReconcile /\ [][NextReconcile]_vars

\* The server: the sources page is used while a sync is in progress
NextServer ==
    \/ RunSync
    \/ AddSource
    \/ DeleteSource
    \/ FileEdit

SpecServer == InitSync /\ [][NextServer]_vars

\* NextState as a function: any prior state of its domain, the four ratings
InputStates ==
    {[Stability |-> (hs * Scale) \div 2, Difficulty |-> (hd * Scale) \div 2,
      LastReview |-> t] :
        hs \in 0..MaxInputHalfDays, hd \in 0..20, t \in 0..1}

InitNextState ==
    /\ cards = [h \in Hashes |-> NewCardRow(1, 0)]
    /\ sources = (1 :> NewSourceRow("notes", 0))
    /\ nextId = 2
    /\ files = [p \in Paths |-> IF p = "notes" THEN Hashes ELSE {}]
    /\ now \in 0..MaxNow
    /\ req = [r \in Requests |-> IdleRequest]
    /\ served = 0
    /\ sync = IdleSync
    /\ page = NoPage
    /\ knol = NoKnol
    /\ parser = NoParser
    /\ \E cs \in InputStates, rating \in Ratings :
          /\ cs.Stability > 0 => cs.Difficulty \in MinDifficulty..MaxDifficulty
          /\ call = [NoCall EXCEPT !.pc = "call", !.currentState = cs,
                                   !.rating = rating]

CallNextState ==
    /\ call.pc = "call"
    /\ call' = [call EXCEPT !.pc = "returned", !.clock = now,
                            !.result = NextState(call.currentState,
                                                 call.rating, now)]
    /\ UNCHANGED <<cards, sources, nextId, files, now, req, served, sync, page, knol, parser>>

SpecNextState == InitNextState /\ [][CallNextState]_vars

\* NextDueDate as a function: stabilities in steps of 1/40 day (36 minutes),
\* called at any hour of the day
DueInputs == {k * (Scale \div 40) : k \in 0..MaxInputFortieths}

HoursOfDay == 0..23

InitNextDueDate ==
    /\ cards = [h \in Hashes |-> NewCardRow(1, 0)]
    /\ sources = (1 :> NewSourceRow("notes", 0))
    /\ nextId = 2
    /\ files = [p \in Paths |-> IF p = "notes" THEN Hashes ELSE {}]
    /\ now \in HoursOfDay
    /\ req = [r \in Requests |-> IdleRequest]
    /\ served = 0
    /\ sync = IdleSync
    /\ page = NoPage
    /\ knol = NoKnol
    /\ parser = NoParser
    /\ \E newStability \in DueInputs :
          call = [NoCall EXCEPT !.pc = "call", !.newStability = newStability]

CallNextDueDate ==
    /\ call.pc = "call"
    /\ call' = [call EXCEPT !.pc = "returned", !.clock = now,
                            !.due = NextDueDate(call.newStability, now)]
    /\ UNCHANGED <<cards, sources, nextId, files, now, req, served, sync, page, knol, parser>>

SpecNextDueDate == InitNextDueDate /\ [][CallNextDueDate]_vars

RECURSIVE ReachableStates(_)
\* The states NextState reaches from a new card in at most n reviews
ReachableStates(n) ==
    IF n = 0 THEN {ZeroState}
    ELSE LET earlier == ReachableStates(n - 1)
         IN  earlier \cup {NextState(cs, rating, 0) :
                               cs \in earlier, rating \in Ratings}

\* An unbroken run of Again from a reviewed state
InitLapse ==
    /\ cards = [h \in Hashes |-> NewCardRow(1, 0)]
    /\ sources = (1 :> NewSourceRow("notes", 0))
    /\ nextId = 2
    /\ files = [p \in Paths |-> IF p = "notes" THEN Hashes ELSE {}]
    /\ now = 0
    /\ req = [r \in Requests |-> IdleRequest]
    /\ served = 0
    /\ sync = IdleSync
    /\ page = NoPage
    /\ knol = NoKnol
    /\ parser = NoParser
    /\ \E cs \in ReachableStates(MaxLapseDepth) :
          /\ cs.Stability > 0
          /\ call = [NoCall EXCEPT !.pc = "call", !.currentState = cs,
                                   !.rating = Again]

\* The next review of the run: NextState on the state the last one returned
CallAgain ==
    /\ call.pc \in {"call", "returned"}
    /\ LET cs == IF call.pc = "call" THEN call.currentState ELSE call.result
       IN  call' = [call EXCEPT !.pc = "returned", !.currentState = cs,
                               !.clock = now,
                               !.result = NextState(cs, Again, now)]
    /\ UNCHANGED <<cards, sources, nextId, files, now, req, served, sync, page, knol, parser>>

SpecLapse == InitLapse /\ [][CallAgain]_vars /\ WF_vars(CallAgain)

----------------------------------------------------------------------------
(* Properties *)

Reviewed(h) == cards[h].last_review.Valid

Stored(r) == req[r].pc = "done" /\ req[r].status = "200"

\* C1: starting from a new card, after any sequence of reviews with the four
\* ratings the difficulty of every reviewed card lies in [1, 10].
DifficultyBounds ==
    \A h \in DOMAIN cards :
        Reviewed(h) => cards[h].difficulty >= 10000 /\ cards[h].difficulty <= 100000

\* A card whose difficulty was held at 10 by a review that raised it
DifficultyClampedAtCeiling ==
    \E r \in Requests :
        /\ Stored(r) /\ req[r].grade = Again
        /\ req[r].currentFSRSState.Difficulty > 100000 - 17200
        /\ req[r].hash \in DOMAIN cards
        /\ cards[req[r].hash].difficulty = 100000

\* C2: a reviewed card has stability > 0, so a request that loaded a
\* reviewed card never takes the first-review branch.
StabilityPositive ==
    /\ \A h \in DOMAIN cards : Reviewed(h) => cards[h].stability > 0
    /\ \A r \in Requests :
          req[r].pc = "update" /\ req[r].card.last_review.Valid
              => CurrentFSRSState(req[r].card).Stability # 0

\* A reviewed card whose stability an Again brought down to the floor
LapsedToFloor ==
    \E r \in Requests :
        /\ Stored(r) /\ req[r].grade = Again
        /\ req[r].currentFSRSState.Stability > 0
        /\ req[r].hash \in DOMAIN cards
        /\ cards[req[r].hash].stability = 1000

NewCardInitialization ==
    (call.pc = "returned" /\ call.currentState.Stability = 0)
        => /\ call.result.Stability = <<4000, 6000, 24000, 58000>>[call.rating]
           /\ call.result.Difficulty = <<66500, 57900, 49300, 40700>>[call.rating]

\* A first review of a state with stability 0 and a prior difficulty
NewCardWithPriorDifficulty ==
    /\ call.pc = "returned" /\ call.currentState.Stability = 0
    /\ call.currentState.Difficulty > 0 /\ call.currentState.LastReview > 0
    /\ call.result.Stability = 58000

\* C3: a request whose grade is outside {1, 2, 3, 4} is rejected: it is
\* never answered as a stored review.
InvalidRatingRejected ==
    \A r \in Requests : Stored(r) => req[r].grade \in {1, 2, 3, 4}

FirstThenSecond(g1, g2) ==
    LET s == NextState(NextState(ZeroState, g1, 0), g2, 0)
    IN  <<s.Stability, s.Difficulty>>

\* C4: two stored reviews of the same new card leave the stability and
\* difficulty of applying both ratings one after the other, in some order.
NoReviewLost ==
    \A r1, r2 \in Requests :
        (/\ r1 # r2 /\ served = 2
         /\ Stored(r1) /\ Stored(r2) /\ req[r1].hash = req[r2].hash
         /\ req[r1].grade \in Ratings /\ req[r2].grade \in Ratings)
        => LET row == cards[req[r1].hash]
           IN  <<row.stability, row.difficulty>> \in
                   {FirstThenSecond(req[r1].grade, req[r2].grade),
                    FirstThenSecond(req[r2].grade, req[r1].grade)}

\* C5: the due date of a reviewed card is never before its last review.
DueNotBeforeLastReview ==
    \A h \in DOMAIN cards :
        Reviewed(h) => cards[h].due_date >= cards[h].last_review.Time

\* C7: along a run of Again the stability never drops below 0.1, reaches
\* 0.1 after finitely many reviews and stays there.
AgainRunReachesFloor ==
    /\ [](call.pc = "returned" => call.result.Stability >= 1000)
    /\ <>[](call.pc = "returned" /\ call.result.Stability = 1000)

\* A run of Again that came down to the floor from a stability above it
RunCameDownToFloor ==
    /\ call.pc = "returned"
    /\ call.currentState.Stability > 1000
    /\ call.result.Stability = 1000

\* C8: a step of a review request either leaves every card as it is, or
\* replaces stability, difficulty, due_date, last_review and state of the
\* requested card by one NextState / NextDueDate result; a request that
\* ends with an error changes nothing.
MemoryStateMutatedWhole ==
    [][/\ DOMAIN cards' = DOMAIN cards
       /\ \A h \in DOMAIN cards :
             cards'[h] # cards[h] =>
                \E r \in Requests :
                    /\ req[r].pc = "update" /\ req[r].hash = h
                    /\ req'[r].pc = "done" /\ req'[r].status = "200"
                    /\ LET ns == NextState(CurrentFSRSState(req[r].card),
                                           req[r].grade, now)
                       IN  cards'[h] =
                             [stability |-> ns.Stability,
                              difficulty |-> ns.Difficulty,
                              due_date |-> NextDueDate(ns.Stability, now),
                              last_review |-> [Time |-> ns.LastReview,
                                               Valid |-> TRUE],
                              state |-> 2,
                              source_id |-> cards[h].source_id]
       /\ \A r \in Requests :
             (req'[r] # req[r] /\ req'[r].status # "200") => cards' = cards
      ]_vars

\* A stored review of a card that had been reviewed before
ReviewedAgainAndStored ==
    \E r \in Requests :
        /\ Stored(r) /\ req[r].currentFSRSState.Stability > 0
        /\ req[r].hash \in DOMAIN cards
        /\ cards[req[r].hash] = req[r].card

\* The hashes of the cards in the markdown files of the configured sources
InFiles == UNION {files[sources[id].path] : id \in DOMAIN sources}

\* C9: when RunSync has completed without reporting an error, a hash is
\* stored if and only if it is in the files of some configured source.
DatabaseMatchesFiles ==
    (sync.pc = "done" /\ ~sync.errors) => DOMAIN cards = InFiles

\* C11: for a new card the initial difficulty increases as the rating
\* worsens: Again > Hard > Good > Easy; two neighbouring ratings give the
\* same difficulty only when both are clamped at 1 or at 10.
InitialDifficultyOrdered ==
    (call.pc = "returned" /\ call.currentState.Stability = 0
                          /\ call.rating \in {Again, Hard, Good})
        => LET worse == call.result.Difficulty
               better == NextState(call.currentState, call.rating + 1,
                                   call.clock).Difficulty
           IN  \/ worse > better
               \/ worse = better /\ worse \in {10000, 100000}

\* A first review rated Again, which yields the largest initial difficulty
NewCardRatedAgain ==
    /\ call.pc = "returned" /\ call.currentState.Stability = 0
    /\ call.rating = Again
    /\ call.result.Difficulty = 66500

\* C12: on a reviewed card with difficulty D in [1, 10], Good leaves the
\* difficulty D, Again and Hard raise it (or leave it at 10), Easy lowers it
\* (or leaves it at 1).
DifficultyFollowsRating ==
    (call.pc = "returned" /\ call.currentState.Stability > 0)
        => LET D == call.currentState.Difficulty
               newD == call.result.Difficulty
           IN  /\ call.rating = Good => newD = D
               /\ call.rating \in {Again, Hard}
                     => newD > D \/ (newD = D /\ newD = 100000)
               /\ call.rating = Easy
                     => newD < D \/ (newD = D /\ newD = 10000)

\* A review rated Hard that raised the difficulty of a reviewed card
HardRaisedDifficulty ==
    /\ call.pc = "returned" /\ call.currentState.Stability > 0
    /\ call.rating = Hard
    /\ call.currentState.Difficulty = 50000
    /\ call.result.Difficulty = 58600

\* C13: on a reviewed card a rating of Hard, Good or Easy yields a stability
\* strictly greater than the current one.
RecallGrowsStability ==
    (call.pc = "returned" /\ call.currentState.Stability > 0
                          /\ call.rating \in {Hard, Good, Easy})
        => call.result.Stability > call.currentState.Stability

\* A review rated Hard of a card at difficulty 10, where growth is slowest
HardGrowsAtTopDifficulty ==
    /\ call.pc = "returned" /\ call.currentState.Stability > 0
    /\ call.rating = Hard
    /\ call.currentState.Difficulty = 100000
    /\ call.result.Stability > call.currentState.Stability

\* C14: from the same reviewed state Hard yields a smaller stability than
\* Good, and Good a smaller stability than Easy.
HardBelowGoodBelowEasy ==
    (call.pc = "returned" /\ call.currentState.Stability > 0
                          /\ call.rating = Good)
        => LET hard == NextState(call.currentState, Hard, call.clock)
               easy == NextState(call.currentState, Easy, call.clock)
           IN  /\ hard.Stability < call.result.Stability
               /\ call.result.Stability < easy.Stability

\* A review rated Good of a card at difficulty 10, where Hard and Good are
\* computed with the same difficulty and differ by the multiplier alone
GoodAtTopDifficulty ==
    /\ call.pc = "returned" /\ call.currentState.Stability > 0
    /\ call.rating = Good
    /\ call.currentState.Difficulty = 100000
    /\ call.result.Difficulty = 100000

\* C15: at a fixed current time NextDueDate is strictly increasing in the
\* stability: a larger stability gives a later due date.
DueDateStrictlyIncreasing ==
    call.pc = "returned"
        => \A s2 \in DueInputs :
              s2 > call.newStability
                  => NextDueDate(s2, call.clock) > call.due

\* C17: Again on a reviewed card resets its stability to exactly 1.
AgainResetsStabilityToOne ==
    (call.pc = "returned" /\ call.currentState.Stability > 0
                          /\ call.rating = Again)
        => call.result.Stability = 10000

\* The stability rounded to the nearest whole day, halves away from zero
RoundedDays(stability) == (stability + Scale \div 2) \div Scale

\* C18: NextDueDate schedules a card the stability rounded to the nearest
\* day ahead, a whole number of days: for 15.5 the due date is 16 days
\* after the time of the call, at any hour of the day.
DueDateRoundsToWholeDays ==
    call.pc = "returned"
        => call.due = call.clock + 24 * RoundedDays(call.newStability)

\* The stored cards that are due at the current time
DueNow == {h \in DOMAIN cards : cards[h].due_date <= now}

\* C19: a successful response of the next-review view lists exactly the
\* stored cards with due_date <= now, each once, in non-decreasing due_date
\* order, and shows the front of a card with the earliest due date among
\* them, or the deck view when no card is due.
NextReviewShowsEarliestDue ==
    [][(page.view = "pending" /\ page'.view \in {"deck", "card_front"})
          => LET rows == page'.dueCards
             IN  /\ {rows[i].Hash : i \in DOMAIN rows} = DueNow
                 /\ Len(rows) = Cardinality(DueNow)
                 /\ \A i \in DOMAIN rows :
                       rows[i].DueDate = cards[rows[i].Hash].due_date
                 /\ \A i, j \in DOMAIN rows :
                       i < j => rows[i].DueDate <= rows[j].DueDate
                 /\ page'.view = "deck" <=> DueNow = {}
                 /\ page'.view = "card_front"
                       => /\ page'.nextCard \in DueNow
                          /\ \A h \in DueNow :
                                cards[page'.nextCard].due_date
                                    <= cards[h].due_date
      ]_vars

\* The review page showing the second card first: both cards are due and
\* the first one, reviewed since, is due later
LaterInsertedCardShownFirst ==
    /\ page.view = "card_front"
    /\ Len(page.dueCards) = 2
    /\ page.nextCard = 2
    /\ page.dueCards[1].DueDate < page.dueCards[2].DueDate

\* The three fields of a card after the normalization of each
NormalizedFields(card) ==
    <<normalizePart(card.Question), normalizePart(card.Answer),
      normalizePart(card.Context)>>

\* C20: two cards whose question, answer or context differ after the
\* normalization of each field have different hashes.
DifferentCardsDifferentHashes ==
    (knol.pc = "returned"
        /\ NormalizedFields(knol.card1) # NormalizedFields(knol.card2))
        => knol.hash1 # knol.hash2

\* C25: reconciliation deletes a stored card only when the card is no
\* longer in the files of the source being reconciled.
CardsDeletedOnlyWhenGone ==
    [][sync.pc = "orphans"
          => \A h \in DOMAIN cards \ DOMAIN cards' :
                h \notin files[sync.source.path]
      ]_vars

\* C27: the source_id of every stored card is the id of a stored source.
SourceOfEveryCardExists ==
    \A h \in DOMAIN cards : cards[h].source_id \in DOMAIN sources

\* C30: no outcome of a sync terminates the server process.
ServerSurvivesSync == sync.pc # "exited"

\* The cards of a table without the cards of one source
WithoutSource(table, id) ==
    [h \in {k \in DOMAIN table : table[k].source_id # id} |-> table[h]]

\* C24: a step of the sources page that removes a source or a card removes
\* one source together with all the cards whose source_id is its id, and
\* nothing else; a step that fails removes nothing.
DeleteSourceAtomic ==
    [][(/\ sync' = sync
        /\ \/ DOMAIN sources \ DOMAIN sources' # {}
           \/ DOMAIN cards \ DOMAIN cards' # {})
          => \E id \in DOMAIN sources :
                /\ DOMAIN sources' = DOMAIN sources \ {id}
                /\ \A i \in DOMAIN sources' : sources'[i] = sources[i]
                /\ cards' = WithoutSource(cards, id)
      ]_vars

\* The source "notes" was deleted with its cards while the cards of the
\* other source are stored
SourceDeletedOtherCardsKept ==
    /\ sync.pc = "idle"
    /\ DOMAIN sources = {2}
    /\ DOMAIN cards # {}
    /\ \A h \in DOMAIN cards : cards[h].source_id = 2

\* C26: a step of RunSync leaves every stored card as it is, except that it
\* inserts a card that was not stored, as a new card of the source being
\* reconciled, or deletes a card of the source being reconciled that was
\* not found in its files; of the sources it changes only last_scanned of
\* the source being reconciled.
ReconcileFrame ==
    [][sync' # sync
          => /\ \A h \in DOMAIN cards \cap DOMAIN cards' :
                   cards'[h] = cards[h]
             /\ \A h \in DOMAIN cards' \ DOMAIN cards :
                   cards'[h] = [stability |-> 0, difficulty |-> 0,
                                due_date |-> now, last_review |-> NullTime,
                                state |-> 0, source_id |-> sync.source.id]
             /\ \A h \in DOMAIN cards \ DOMAIN cards' :
                   /\ cards[h].source_id = sync.source.id
                   /\ h \notin sync.foundCardHashes
             /\ DOMAIN sources' = DOMAIN sources
             /\ \A id \in DOMAIN sources :
                   /\ sources'[id].path = sources[id].path
                   /\ sources'[id].type = sources[id].type
                   /\ id # sync.source.id => sources'[id] = sources[id]
             /\ nextId' = nextId /\ files' = files
      ]_vars

\* The orphans of one source are being deleted while a reviewed card of
\* another source is stored
OrphansBesideReviewedCard ==
    /\ sync.pc = "orphans"
    /\ sync.dbCards # {}
    /\ \E h \in DOMAIN cards :
          /\ cards[h].source_id # sync.source.id
          /\ cards[h].stability > 0

\* C29: once the git step of a source has failed in a run of RunSync, no
\* card of that source is inserted, deleted or changed in the rest of the
\* run, and when the run completes every other source has been reconciled.
GitFailureIsolated ==
    [][/\ \A id \in sync'.skipped :
             /\ GetCardsBySourceID(cards', id) = GetCardsBySourceID(cards, id)
             /\ \A h \in GetCardsBySourceID(cards, id) : cards'[h] = cards[h]
       /\ sync'.pc = "done"
             => /\ sync'.skipped \cap sync'.reconciled = {}
                /\ DOMAIN sources \ sync'.skipped \subseteq sync'.reconciled
                /\ \A id \in sync'.skipped : sources[id].type = "git"
      ]_vars

\* A completed run that skipped a failing git source holding a card and
\* reconciled the other source
RunSkippedGitSource ==
    /\ sync.pc = "done"
    /\ sync.skipped # {}
    /\ sync.reconciled # {}
    /\ \E h \in DOMAIN cards : cards[h].source_id \in sync.skipped

\* C28: right after a stored review the due date of the reviewed card is
\* strictly later than the time of the review, so the card has left the due
\* set and a study session is over after one review for each due card.
ReviewedCardLeavesDueSet ==
    \A r \in Requests :
        Stored(r) => req[r].card.due_date > req[r].card.last_review.Time

----------------------------------------------------------------------------
(* The parser *)

\* Parse has returned the cards of the reader
ParseReturned == parser.pc = "returned" /\ ~parser.err

\* The prefix a line starts with, or none
PrefixOf(line) ==
    IF HasPrefix(line, questionPrefix) THEN questionPrefix
    ELSE IF HasPrefix(line, answerPrefix) THEN answerPrefix
    ELSE IF HasPrefix(line, contextPrefix) THEN contextPrefix
    ELSE <<>>

\* The last line before the next line of `starts` after line i
LastBefore(lines, i, starts) ==
    LET later == {j \in starts : j > i}
    IN  IF later = {} THEN Len(lines)
        ELSE (CHOOSE j \in later : \A n \in later : j <= n) - 1

\* The text of the block the prefix line i opens: what follows the prefix
\* and the lines up to the next prefix line, joined by newlines, white space
\* around it removed
BlockText(lines, i) ==
    LET prefixLines == {j \in DOMAIN lines : PrefixOf(lines[j]) # <<>>}
        first == TrimSpace(TrimPrefix(lines[i], PrefixOf(lines[i])))
        rest == SubSeq(lines, i + 1, LastBefore(lines, i, prefixLines))
    IN  TrimSpace(Join(<<first>> \o rest, <<LF>>))

\* The 'Q:' lines with a question
QuestionLines(lines) ==
    {i \in DOMAIN lines :
        PrefixOf(lines[i]) = questionPrefix /\ BlockText(lines, i) # <<>>}

\* The k-th line of a set of lines
NthLine(S, k) == CHOOSE i \in S : Cardinality({j \in S : j < i}) = k - 1

\* The field of the card opened at line q that the lines with `prefix` open:
\* the block of the last of them before the next 'Q:' line
FieldText(lines, q, prefix) ==
    LET qLines == {j \in DOMAIN lines : PrefixOf(lines[j]) = questionPrefix}
        opened == {j \in q..LastBefore(lines, q, qLines) :
                      PrefixOf(lines[j]) = prefix}
    IN  IF opened = {} THEN <<>>
        ELSE BlockText(lines, CHOOSE j \in opened : \A n \in opened : j >= n)

\* C21: Parse returns, in the order of the input, one card for each 'Q:'
\* line whose question block is not empty, every card has a question, and
\* an input without a 'Q:' line gives no card.
OneCardPerQuestion ==
    ParseReturned =>
        LET qs == QuestionLines(parser.r.lines)
        IN  /\ Len(parser.cards) = Cardinality(qs)
            /\ \A k \in DOMAIN parser.cards :
                  /\ parser.cards[k].Question # <<>>
                  /\ parser.cards[k].Question =
                        BlockText(parser.r.lines, NthLine(qs, k))

\* Two cards with different questions returned from an input that also has
\* a 'Q:' line without a question
TwoCardsAndEmptyQuestion ==
    /\ ParseReturned
    /\ Len(parser.cards) = 2
    /\ parser.cards[1].Question # parser.cards[2].Question
    /\ \E i \in DOMAIN parser.r.lines :
          /\ PrefixOf(parser.r.lines[i]) = questionPrefix
          /\ BlockText(parser.r.lines, i) = <<>>

SeparatorInNoField ==
    ParseReturned =>
        \A k \in DOMAIN parser.cards :
            \A text \in {parser.cards[k].Question, parser.cards[k].Answer,
                         parser.cards[k].Context} :
                \A n \in DOMAIN text : text[n] # "-"

====
